---- MODULE Spec2Model ----
(***************************************************************************)
(* Model of the Z21 LAN client draft in src/z21client.py: the inbound      *)
(* message structure (Z21_DATASET.MSGs.From_Z21), the receive household    *)
(* Z21Client.Rcv (its _data dictionary, the callback binding done by       *)
(* __init__, reset_date, the decoder callbacks and _proc_rcv_stream), the  *)
(* outbound message template SndMsg (stream) and the helper bcd_decode.    *)
(*                                                                         *)
(* Reading of the source.  Every statement is modelled as Python executes  *)
(* it, exceptions included.  Four names of the draft resolve to nothing in *)
(* the file; they are read as the definitions they stand for, because the  *)
(* receive household cannot even be constructed otherwise:                 *)
(*   Z21_DEFINES.MSG_FROM_Z21.STRUC_TMPL (line 388) is the one inbound     *)
(*       structure Z21_DATASET.MSGs.From_Z21 (lines 253-308), a module     *)
(*       level object that line 388 assigns without copying it;            *)
(*   self.MSG_STRUC (lines 488, 490) is self._MSG_STRUC (line 388);        *)
(*   self.rcvData (lines 445, 456, 464) is self._data (line 372);          *)
(*   self._process_dataset (line 484), which no file defines, has no       *)
(*       effect; udp_data_stream.copy() (line 476) copies the buffer.      *)
(* Likewise Z21_DEFINES.UDP_PORT.Z21_UDP_CLIENT_PORTS[0] (line 532) is the *)
(* client port 21105 of line 126.                                          *)
(* Bytes are sequences of 0..255; None is the string "None".               *)
(***************************************************************************)
EXTENDS Integers, Sequences, FiniteSets, TLC

VARIABLES
    created,     \* number of Rcv objects constructed so far: objects 1..created
    data,        \* data[i]: the dictionary Rcv._data of object i
    MSG_STRUC,   \* callback of every leaf of the one inbound structure
    last_data,   \* last_data[name]: SndMsg._last_data of the template `name`
    task,        \* task[i]: the UDP listener Udp_rcv_task of object i
    call         \* the call just made, until its caller has taken the
                 \* outcome: operation, object, argument, outcome

vars == <<created, data, MSG_STRUC, last_data, task, call>>

\* None where the source uses it as a name or as a missing callback
None == "None"

\* values held by _data: None, an int, a str, the text _cb_hw_sw formats
PyNone == [t |-> "None"]
PyInt(n) == [t |-> "int", v |-> n]
PyStr(s) == [t |-> "str", v |-> s]
PyFloat(n) == [t |-> "float", n |-> n]
PyHwSw(hw, sw) == [t |-> "hw_sw", hw |-> hw, sw |-> sw]

\* a bytes object, or None where the source passes None for it
Bytes(b) == [none |-> FALSE, b |-> b]
NoBytes == [none |-> TRUE, b |-> <<>>]

-----------------------------------------------------------------------------
(* Bounds of the model *)

MaxInst == 2        \* Rcv objects constructed in one run
MaxChunks == 2      \* pieces concatenated into one datagram

-----------------------------------------------------------------------------
(* Python primitives the source uses *)

Min(a, b) == IF a < b THEN a ELSE b

\* b[lo:hi] for 0 <= lo, 0 <= hi
Slice(b, lo, hi) == SubSeq(b, lo + 1, Min(hi, Len(b)))

\* b[lo:]
SliceFrom(b, lo) == SubSeq(b, lo + 1, Len(b))

RECURSIVE from_bytes_little(_)
\* int.from_bytes(b, byteorder='little'); the empty sequence gives 0
from_bytes_little(b) ==
    IF b = <<>> THEN 0 ELSE Head(b) + 256 * from_bytes_little(Tail(b))

\* n.to_bytes(w, 'little') for 0 <= n < 256^w
to_bytes_little(n, w) == [k \in 1..w |-> (n \div (256 ^ (k - 1))) % 256]

-----------------------------------------------------------------------------
(* Python float arithmetic: IEEE 754 binary64, round to nearest, ties to   *)
(* even.  A float x >= 0 is held as the natural number x * 2^66, written   *)
(* in limbs of 11 bits, lowest limb first, without leading zero limbs:     *)
(* the floats nearest to 10^-1 .. 10^-4 and every product and sum of       *)
(* floats not below them are multiples of 2^-66.                           *)

LimbBits == 11
Limb == 2 ^ LimbBits
FracLimbs == 6
SigBits == 53

RECURSIVE Trim(_)
Trim(a) ==
    IF a # <<>> /\ a[Len(a)] = 0 THEN Trim(SubSeq(a, 1, Len(a) - 1)) ELSE a

RECURSIVE BigOfNat(_)
BigOfNat(n) == IF n = 0 THEN <<>> ELSE <<n % Limb>> \o BigOfNat(n \div Limb)

RECURSIVE AddFrom(_, _, _, _)
\* the limbs k, k+1, .. of a + b, c being the carry into limb k
AddFrom(a, b, k, c) ==
    IF k > Len(a) /\ k > Len(b) THEN BigOfNat(c)
    ELSE LET t == (IF k <= Len(a) THEN a[k] ELSE 0)
                  + (IF k <= Len(b) THEN b[k] ELSE 0) + c
         IN <<t % Limb>> \o AddFrom(a, b, k + 1, t \div Limb)

BigAdd(a, b) == AddFrom(a, b, 1, 0)

RECURSIVE MulFrom(_, _, _, _)
\* the limbs k, k+1, .. of a * m for a small m, c being the carry
MulFrom(a, m, k, c) ==
    IF k > Len(a) THEN BigOfNat(c)
    ELSE LET t == a[k] * m + c
         IN <<t % Limb>> \o MulFrom(a, m, k + 1, t \div Limb)

BigMul(a, m) == Trim(MulFrom(a, m, 1, 0))

RECURSIVE DivFrom(_, _, _, _)
\* long division of the limbs k, .., 1 of a by a small m, r being the
\* remainder carried down from the limbs above
DivFrom(a, m, k, r) ==
    IF k = 0 THEN [q |-> <<>>, r |-> r]
    ELSE LET t == r * Limb + a[k]
             low == DivFrom(a, m, k - 1, t % m)
         IN [q |-> Append(low.q, t \div m), r |-> low.r]

BigDivMod(a, m) ==
    LET d == DivFrom(a, m, Len(a), 0) IN [q |-> Trim(d.q), r |-> d.r]

RECURSIVE BitLen(_)
BitLen(n) == IF n = 0 THEN 0 ELSE 1 + BitLen(n \div 2)

BigBitLen(a) ==
    IF a = <<>> THEN 0 ELSE LimbBits * (Len(a) - 1) + BitLen(a[Len(a)])

\* a rounded to 53 significant bits; `sticky`: the exact value lies above a
\* by less than one
RoundSig(a, sticky) ==
    LET s == BigBitLen(a) - SigBits
        Bit(k) == (a[(k \div LimbBits) + 1] \div (2 ^ (k % LimbBits))) % 2
        LowZero(k) ==
            /\ \A j \in 1..(k \div LimbBits) : a[j] = 0
            /\ a[(k \div LimbBits) + 1] % (2 ^ (k % LimbBits)) = 0
        at == (s \div LimbBits) + 1
        cleared == [j \in 1..Len(a) |->
                        IF j < at THEN 0
                        ELSE IF j = at THEN a[j] - (a[j] % (2 ^ (s % LimbBits)))
                        ELSE a[j]]
        unit == [j \in 1..at |-> IF j = at THEN 2 ^ (s % LimbBits) ELSE 0]
    IN IF s <= 0 THEN a
       ELSE IF Bit(s - 1) = 1
               /\ (~LowZero(s - 1) \/ sticky \/ Bit(s) = 1)
       THEN BigAdd(cleared, unit)
       ELSE cleared

\* float(n) for an int 0 <= n < 2^53
FloatOfInt(n) ==
    IF n = 0 THEN <<>> ELSE [k \in 1..FracLimbs |-> 0] \o BigOfNat(n)

FloatAdd(x, y) == RoundSig(BigAdd(x, y), FALSE)

\* float(n) * x for a small int n >= 0
FloatMulInt(n, x) == RoundSig(BigMul(x, n), FALSE)

\* the float nearest to n / m for ints n >= 0 and 1 <= m <= 10^4: the
\* quotient is taken with one more limb, which the rounding clears
FloatDiv(n, m) ==
    IF n = 0 THEN <<>>
    ELSE LET d == BigDivMod(<<0>> \o FloatOfInt(n), m)
         IN Tail(RoundSig(d.q, d.r # 0))

-----------------------------------------------------------------------------
(* The inbound structure From_Z21: one record per leaf, `path` being the   *)
(* keys that lead to it (header, sub-header, DB0).  A key sequence is a    *)
(* group when it is a proper prefix of a leaf's path.                      *)

Leaf(p, n, t) == [path |-> p, name |-> n, targetValueName |-> t]

From_Z21 ==
    { Leaf(<<16>>, "SERIAL_NUMBER", "serial_number"),
      Leaf(<<24>>, "CODE", "lock_code"),
      Leaf(<<26>>, "HWINFO", "hw_type_fw_version"),
      Leaf(<<64, 67>>, "X_TURNOUT_INFO", "turnout_state"),
      Leaf(<<64, 68>>, "X_EXT_ACCESSORY_INFO", "accessory_state_information"),
      Leaf(<<64, 97, 0>>, "X_BC_TRACK_POWER_OFF", None),
      Leaf(<<64, 97, 1>>, "X_BC_TRACK_POWER_ON", None),
      Leaf(<<64, 97, 2>>, "X_BC_PROGRAMMING_MODE", None),
      Leaf(<<64, 97, 8>>, "X_BC_TRACK_SHORT_CIRCUIT", None),
      Leaf(<<64, 97, 18>>, "X_CV_NACK_SC", None),
      Leaf(<<64, 97, 19>>, "X_CV_NACK", None),
      Leaf(<<64, 97, 130>>, "X_UNKNOWN_COMMAND", None),
      Leaf(<<64, 98, 34>>, "X_STATUS_CHANGED", "state"),
      Leaf(<<64, 99, 33>>, "X_VERSION", "xbus_version_id"),
      Leaf(<<64, 100, 20>>, "X_CV_RESULT", "cv_result"),
      Leaf(<<64, 129>>, "X_BC_STOPPED", None),
      Leaf(<<64, 239>>, "X_LOCO_INFO", "loco_information"),
      Leaf(<<64, 243, 10>>, "X_FIRMWARE_VERSION", "Version_bcd"),
      Leaf(<<81>>, "BROADCASTFLAGS", "broadcast_flags"),
      Leaf(<<96>>, "LOCOMODE", "loco_address_mode"),
      Leaf(<<112>>, "TURNOUTMODE", "accessory_decoder_address_mode"),
      Leaf(<<128>>, "RMBUS_DATACHANGED", "group_index_feedback_status"),
      Leaf(<<132>>, "SYSTEMSTATE_DATACHANGED", "system_state"),
      Leaf(<<136>>, "RAILCOM_DATACHANGED", "rail_com_data"),
      Leaf(<<160>>, "LOCONET_Z21_RX", "loco_net_meldung"),
      Leaf(<<161>>, "LOCONET_Z21_TX", "loco_net_meldung"),
      Leaf(<<162>>, "LOCONET_FROM_LAN", "loco_net_meldung"),
      Leaf(<<163>>, "LOCONET_DISPATCH_ADDR", "loco_address_ergebnis"),
      Leaf(<<164>>, "LOCONET_DETECTOR", "type_feedback_address_info"),
      Leaf(<<196>>, "CAN_DETECTOR", "occupancy_message"),
      Leaf(<<200>>, "CAN_DEVICE_DESCRIPTION", "net_id_name"),
      Leaf(<<202>>, "CAN_BOOSTER_SYSTEMSTATE_CHGD", "can_booster_system_state"),
      Leaf(<<205>>, "FAST_CLOCK_DATA", "fastclock_time"),
      Leaf(<<206>>, "FAST_CLOCK_SETTINGS_GET", "fastclock_settings"),
      Leaf(<<184>>, "BOOSTER_DESCRIPTION", "string"),
      Leaf(<<186>>, "BOOSTER_SYSTEMSTATE_DATACHANGED", "booster_system_state"),
      Leaf(<<216>>, "DECODER_DESCRIPTION", "string"),
      Leaf(<<218>>, "DECODER_SYSTEMSTATE_DATACHANGED", "decoder_system_state"),
      Leaf(<<232, 6>>, "ZLINK_HWINFO", "z_hw_info") }

LeafPaths == { l.path : l \in From_Z21 }

LeafAt(p) == CHOOSE l \in From_Z21 : l.path = p

\* `"name" in structure` for the node reached by the keys p
IsLeaf(p) == p \in LeafPaths

\* `key in structure` for the group reached by the keys p
HasKey(p, key) ==
    \E q \in LeafPaths :
        Len(q) > Len(p) /\ SubSeq(q, 1, Len(p) + 1) = Append(p, key)

-----------------------------------------------------------------------------
(* Rcv.__init__ *)

\* the dictionary _data as line 372 creates it
InitData ==
    [k \in {"serial_number", "lock_code", "hw_type_fw_version", "turnout_state"}
        |-> PyNone]

\* a bound method: the function and the object it is bound to
Bound(i, f) == [self |-> i, func |-> f]

\* the leaves lines 391-397 bind, with the method each gets
InitCallbacks ==
    [p \in {<<16>>, <<24>>, <<26>>, <<64, 67>>, <<64, 68>>,
            <<64, 97, 0>>, <<64, 97, 1>>} |->
        CASE p = <<16>> -> "_cb_uint32_le"
          [] p = <<24>> -> "_cb_lock_code"
          [] p = <<26>> -> "_cb_hw_sw"
          [] p = <<64, 67>> -> "_cb_actualize_turnout_state"
          [] OTHER -> "_cb_dummy"]

Unbound == [func |-> None]

\* the structure after object i has run lines 388-397 on it
BindCallbacks(struc, i) ==
    [p \in LeafPaths |->
        IF p \in DOMAIN InitCallbacks THEN Bound(i, InitCallbacks[p])
        ELSE struc[p]]

NoErr == [type |-> "None", msg |-> "", args |-> <<>>]

\* a call that returned, leaving the dictionaries d
Return(d) ==
    [status |-> "returned", err |-> NoErr, line |-> 0, data |-> d,
     invoked |-> <<>>]

\* a decoder that ran on `payload` for the leaf at `path` and returned
Decoded(path, cb, payload, d) ==
    [status |-> "returned", err |-> NoErr, line |-> 0, data |-> d,
     invoked |-> <<[path |-> path, self |-> cb.self, func |-> cb.func,
                    payload |-> payload]>>]

\* a call that an exception raised at `line` ended
Raise(type, msg, args, line, d) ==
    [status |-> "raised", err |-> [type |-> type, msg |-> msg, args |-> args],
     line |-> line, data |-> d, invoked |-> <<>>]

\* what the caller of a call sees of its outcome r
Seen(r) ==
    [status |-> r.status, err |-> r.err, line |-> r.line,
     invoked |-> r.invoked]

NoOutcome == Seen(Return(<<>>))

\* Udp_rcv_task.__init__, lines 522-525: the event is not set, the task
\* _task_proc is scheduled and has not run yet; `recv` is the local `data`
\* of _task_proc that takes each datagram received
Udp_rcv_task ==
    [pc |-> "scheduled", shut_down_event |-> FALSE, sock |-> "none",
     recv |-> NoBytes]

NewRcv ==
    /\ call.op = "idle"
    /\ created < MaxInst
    /\ created' = created + 1
    /\ task' = Append(task, Udp_rcv_task)
    /\ data' = [i \in 1..(created + 1) |->
                    IF i = created + 1 THEN InitData ELSE data[i]]
    /\ MSG_STRUC' = BindCallbacks(MSG_STRUC, created + 1)
    /\ call' = [op |-> "Rcv", self |-> created + 1, arg |-> <<>>,
                out |-> NoOutcome]
    /\ UNCHANGED last_data

-----------------------------------------------------------------------------
(* Rcv.reset_date *)

SlotNames == DOMAIN InitData

\* d[name] = value on a Python dictionary: the key is added when absent
SetItem(d, name, value) ==
    [k \in DOMAIN d \cup {name} |-> IF k = name THEN value ELSE d[k]]

\* reset_date taking "unknown" as "no entry": the key is deleted
reset_date_deleting(i, name) ==
    /\ call.op = "idle"
    /\ data' = [data EXCEPT ![i] = [k \in DOMAIN @ \ {name} |-> @[k]]]
    /\ call' = [op |-> "reset_date", self |-> i, arg |-> <<name>>,
                out |-> NoOutcome]
    /\ UNCHANGED <<created, MSG_STRUC, last_data, task>>

reset_date(i, name) ==
    /\ call.op = "idle"
    /\ data' = [data EXCEPT ![i] = SetItem(@, name, PyNone)]
    /\ call' = [op |-> "reset_date", self |-> i, arg |-> <<name>>,
                out |-> NoOutcome]
    /\ UNCHANGED <<created, MSG_STRUC, last_data, task>>

-----------------------------------------------------------------------------
(* The helper bcd_decode and the decoder callbacks of Rcv.  A callback     *)
(* gets the object it is bound to, the data bytes (or None), the name      *)
(* `variable` and the dictionaries d of all objects, and gives an outcome. *)

\* 10 ** k: an int for k >= 0, for k < 0 the float nearest to 10^k
Pow10(k) == IF k >= 0 THEN PyInt(10 ^ k) ELSE PyFloat(FloatDiv(1, 10 ^ (-k)))

\* n * p for an int n
PyMul(n, p) ==
    IF p.t = "int" THEN PyInt(n * p.v) ELSE PyFloat(FloatMulInt(n, p.n))

\* x + y: an int if both are, else the float sum of both taken as floats
PyAdd(x, y) ==
    LET ToFloat(z) == IF z.t = "int" THEN FloatOfInt(z.v) ELSE z.n IN
    IF x.t = "int" /\ y.t = "int" THEN PyInt(x.v + y.v)
    ELSE PyFloat(FloatAdd(ToFloat(x), ToFloat(y)))

RECURSIVE bcd_loop(_, _, _, _)
\* the loop of lines 747-749 from pass n on, res being the sum so far; pass
\* n takes the n-th byte from the end, the nibbles are not range checked
bcd_loop(b, decimals, n, res) ==
    IF n = Len(b) THEN res
    ELSE LET byte == b[Len(b) - n]
             res1 == PyAdd(res, PyMul(byte % 16, Pow10(n * 2 - decimals)))
             res2 == PyAdd(res1,
                           PyMul(byte \div 16, Pow10(n * 2 + 1 - decimals)))
         IN bcd_loop(b, decimals, n + 1, res2)

\* bcd_decode(data, decimals): an int when every power of ten is one (and
\* for empty data), else a float
bcd_decode(b, decimals) == bcd_loop(b, decimals, 0, PyInt(0))

NotSubscriptable(what, line, d) ==
    Raise("TypeError", "object is not subscriptable", <<what>>, line, d)

Store(d, i, variable, value) == [d EXCEPT ![i] = SetItem(@, variable, value)]

cb_dummy(i, data_bytes, variable, d) == Return(d)

cb_uint32_le(i, data_bytes, variable, d) ==
    IF data_bytes.none THEN NotSubscriptable("NoneType", 445, d)
    ELSE Return(Store(d, i, variable,
                      PyInt(from_bytes_little(Slice(data_bytes.b, 0, 4)))))

means ==
    [k \in {0, 1, 2} |->
        CASE k = 0 -> "Z21_NO_LOCK.  All features permitted"
          [] k = 1 -> "z21_START_LOCKED. z21 start: driving and switching is blocked"
          [] k = 2 -> "z21_START_UNLOCKED. z21 start: driving and switching is permitted"]

cb_lock_code(i, data_bytes, variable, d) ==
    IF data_bytes.none THEN NotSubscriptable("NoneType", 456, d)
    ELSE IF data_bytes.b = <<>>
    THEN Raise("IndexError", "index out of range", <<>>, 456, d)
    ELSE IF data_bytes.b[1] \notin DOMAIN means
    THEN Raise("KeyError", "", <<data_bytes.b[1]>>, 456, d)
    ELSE Return(Store(d, i, variable, PyStr(means[data_bytes.b[1]])))

cb_hw_sw(i, data_bytes, variable, d) ==
    IF data_bytes.none THEN NotSubscriptable("NoneType", 462, d)
    ELSE Return(Store(d, i, variable,
                      PyHwSw(from_bytes_little(Slice(data_bytes.b, 0, 4)),
                             bcd_decode(SliceFrom(data_bytes.b, 4), 2))))

\* line 468 hands the int data_bytes[2] to int.from_bytes, line 469 is an
\* annotation and stores nothing
cb_actualize_turnout_state(i, data_bytes, variable, d) ==
    IF data_bytes.none THEN NotSubscriptable("NoneType", 467, d)
    ELSE IF Len(data_bytes.b) < 3
    THEN Raise("IndexError", "index out of range", <<>>, 468, d)
    ELSE Raise("TypeError", "cannot convert 'int' object to bytes", <<>>, 468, d)

\* the call cb(data_bytes, variable) of a bound method cb
CallBound(cb, data_bytes, variable, d) ==
    CASE cb.func = "_cb_dummy" -> cb_dummy(cb.self, data_bytes, variable, d)
      [] cb.func = "_cb_uint32_le" -> cb_uint32_le(cb.self, data_bytes, variable, d)
      [] cb.func = "_cb_lock_code" -> cb_lock_code(cb.self, data_bytes, variable, d)
      [] cb.func = "_cb_hw_sw" -> cb_hw_sw(cb.self, data_bytes, variable, d)
      [] cb.func = "_cb_actualize_turnout_state" ->
            cb_actualize_turnout_state(cb.self, data_bytes, variable, d)

-----------------------------------------------------------------------------
(* Rcv._proc_rcv_stream *)

\* The call of the leaf's callback as a correct dispatcher would make it:
\* the callback stored in the leaf, on the leaf's targetValueName.
InvokeLeafCallback(path, data_bytes, d) ==
    LET cb == MSG_STRUC[path] IN
    IF cb.func = None
    THEN Raise("TypeError", "object is not callable", <<"NoneType">>, 0, d)
    ELSE LET r == CallBound(cb, data_bytes, LeafAt(path).targetValueName, d) IN
         IF r.status = "returned" THEN Decoded(path, cb, data_bytes, r.data)
         ELSE r

\* Lines 510, 512, 514: the callee is looked up in the int key just decoded
\* (sub_sub_header, sub_header, dataset_header), not in the structure found
\* under it, so the subscription raises before any callback is fetched.
Invoke(path, data_bytes, d) ==
    NotSubscriptable("int",
                     CASE Len(path) = 1 -> 514 [] Len(path) = 2 -> 512
                       [] OTHER -> 510,
                     d)

\* Lines 488-514 for one dataset
Dispatch(dataset_header, dataset_data, d) ==
    IF ~HasKey(<<>>, dataset_header)
    THEN Raise("ValueError", "Receive a Z21 Dataset with unknown header value.",
               <<>>, 489, d)
    ELSE IF IsLeaf(<<dataset_header>>)
    THEN Invoke(<<dataset_header>>, Bytes(dataset_data), d)
    ELSE
    LET sub_header == from_bytes_little(Slice(dataset_data, 0, 2))
        data2 == IF Len(dataset_data) > 2
                 THEN Bytes(SliceFrom(dataset_data, 2)) ELSE NoBytes
    IN
    IF ~HasKey(<<dataset_header>>, sub_header)
    THEN Raise("ValueError", "Receive a Z21 Dataset with unknown x-header value.",
               <<>>, 499, d)
    ELSE IF IsLeaf(<<dataset_header, sub_header>>)
    THEN Invoke(<<dataset_header, sub_header>>, data2, d)
    ELSE IF data2.none THEN NotSubscriptable("NoneType", 503, d)
    ELSE
    LET sub_sub_header == from_bytes_little(Slice(data2.b, 0, 1))
        data3 == IF Len(data2.b) > 1
                 THEN Bytes(SliceFrom(data2.b, 1)) ELSE NoBytes
    IN
    IF ~HasKey(<<dataset_header, sub_header>>, sub_sub_header)
    THEN Raise("ValueError", "Receive a Z21 Dataset with unknown x-header value.",
               <<>>, 505, d)
    ELSE Invoke(<<dataset_header, sub_header, sub_sub_header>>, data3, d)

\* what one pass of the loop did: where the dataset started, the length it
\* declared, whether the pass ended the call
Pass(offset, dataset_length, r) ==
    [offset |-> offset, length |-> dataset_length,
     raised |-> r.status = "raised"]

RECURSIVE Loop(_, _, _, _, _)
\* The while loop of lines 477-514 from the remaining bytes `stream`, which
\* start at `offset` of the datagram.  A pass that returns without moving
\* the cursor is followed by the same pass again, for ever: "diverges".
Loop(stream, offset, d, invoked, passes) ==
    IF Len(stream) < 4
    THEN [Return(d) EXCEPT !.invoked = invoked]
            @@ [passes |-> passes, rest |-> Len(stream)]
    ELSE
    LET dataset_length == from_bytes_little(Slice(stream, 0, 2)) IN
    IF dataset_length > Len(stream)
    THEN [Raise("ValueError", "Length information in Z21 answer is wrong.",
                <<dataset_length, Len(stream)>>, 480, d)
             EXCEPT !.invoked = invoked]
            @@ [passes |-> passes, rest |-> Len(stream)]
    ELSE
    LET dataset_header == from_bytes_little(Slice(stream, 2, 4))
        dataset_data == Slice(stream, 4, dataset_length)
        rest == SliceFrom(stream, dataset_length)
        r == Dispatch(dataset_header, dataset_data, d)
        done == Append(passes, Pass(offset, dataset_length, r))
    IN
    IF r.status = "raised"
    THEN [r EXCEPT !.invoked = invoked] @@ [passes |-> done, rest |-> Len(rest)]
    ELSE IF dataset_length = 0
    THEN [r EXCEPT !.status = "diverges", !.invoked = invoked \o r.invoked]
            @@ [passes |-> done, rest |-> Len(rest)]
    ELSE Loop(rest, offset + dataset_length, r.data, invoked \o r.invoked, done)

\* _proc_rcv_stream with its buffer kept in the object instead of in the
\* local `stream`: the bytes a call that returned has left over are put in
\* front of the next datagram
proc_rcv_stream_keeping_buffer(udp_data_stream, d) ==
    LET kept == IF Len(d) >= 1 /\ "_stream" \in DOMAIN d[1]
                THEN d[1]["_stream"].v ELSE <<>>
        s == kept \o udp_data_stream
        r == Loop(s, 0, d, <<>>, <<>>)
        left == IF r.status = "returned"
                THEN SubSeq(s, Len(s) - r.rest + 1, Len(s)) ELSE <<>>
    IN IF Len(d) >= 1
       THEN [r EXCEPT !.data = Store(r.data, 1, "_stream",
                                     [t |-> "bytes", v |-> left])]
       ELSE r

proc_rcv_stream(udp_data_stream, d) == Loop(udp_data_stream, 0, d, <<>>, <<>>)

\* what the caller of _proc_rcv_stream sees of its outcome r
SeenOfFeed(r) == Seen(r) @@ [passes |-> r.passes, rest |-> r.rest]

-----------------------------------------------------------------------------
(* The outbound structure TO_Z21 as its dictionary display is written: one *)
(* entry per `key: {...}` leaf in source order, with the keys leading to   *)
(* it, the key its message name is stored under ("name", or "name:" from   *)
(* line 184 on) and the text stored there.                                 *)

Decl(p, k, n) == [path |-> p, key |-> k, text |-> n]

TO_Z21_display ==
    <<
      Decl(<<16>>, "name", "GET_SERIAL_NUMBER"),
      Decl(<<24>>, "name", "GET_CODE"),
      Decl(<<26>>, "name", "GET_HWINFO"),
      Decl(<<48>>, "name", "LOGOFF"),
      Decl(<<64, 33, 33>>, "name", "X_GET_VERSION"),
      Decl(<<64, 33, 36>>, "name", "X_GET_STATUS"),
      Decl(<<64, 33, 128>>, "name", "X_SET_TRACK_POWER_OFF"),
      Decl(<<64, 33, 129>>, "name", "X_SET_TRACK_POWER_ON"),
      Decl(<<64, 34, 17>>, "name", "X_DCC_READ_REGISTER"),
      Decl(<<64, 35, 17>>, "name", "X_CV_READ"),
      Decl(<<64, 35, 18>>, "name", "X_DCC_WRITE_REGISTER"),
      Decl(<<64, 36, 18>>, "name", "X_CV_WRITE"),
      Decl(<<64, 36, 255>>, "name", "X_MM_WRITE_BYTE"),
      Decl(<<64, 67>>, "name", "X_GET_TURNOUT_INFO"),
      Decl(<<64, 68>>, "name", "X_GET_EXT_ACCESSORY_INFO"),
      Decl(<<64, 83>>, "name", "X_SET_TURNOUT"),
      Decl(<<64, 84>>, "name", "X_SET_EXT_ACCESSORY"),
      Decl(<<64, 128>>, "name", "X_SET_STOP"),
      Decl(<<64, 146>>, "name", "X_SET_LOCO_E_STOP"),
      Decl(<<64, 227, 68>>, "name", "X_PURGE_LOCO"),
      Decl(<<64, 227, 240>>, "name", "X_GET_LOCO_INFO"),
      Decl(<<64, 228, 16>>, "name", "X_SET_LOCO_DRIVE_14STEPS"),
      Decl(<<64, 228, 18>>, "name", "X_SET_LOCO_DRIVE_28STEPS"),
      Decl(<<64, 228, 19>>, "name", "X_SET_LOCO_DRIVE_128STEPS"),
      Decl(<<64, 228, 248>>, "name", "X_SET_LOCO_FUNCTION"),
      Decl(<<64, 228, 32>>, "name", "X_SET_LOCO_FUNCTION_GROUP_1"),
      Decl(<<64, 228, 33>>, "name", "X_SET_LOCO_FUNCTION_GROUP_2"),
      Decl(<<64, 228, 34>>, "name", "X_SET_LOCO_FUNCTION_GROUP_3"),
      Decl(<<64, 228, 35>>, "name", "X_SET_LOCO_FUNCTION_GROUP_4"),
      Decl(<<64, 228, 40>>, "name", "X_SET_LOCO_FUNCTION_GROUP_5"),
      Decl(<<64, 228, 41>>, "name", "X_SET_LOCO_FUNCTION_GROUP_6"),
      Decl(<<64, 228, 42>>, "name", "X_SET_LOCO_FUNCTION_GROUP_7"),
      Decl(<<64, 228, 43>>, "name", "X_SET_LOCO_FUNCTION_GROUP_8"),
      Decl(<<64, 228, 80>>, "name", "X_SET_LOCO_FUNCTION_GROUP_9"),
      Decl(<<64, 228, 81>>, "name", "X_SET_LOCO_FUNCTION_GROUP_10"),
      Decl(<<64, 228, 95>>, "name", "X_SET_LOCO_BINARY_STATE"),
      Decl(<<64, 230, 48>>, "name:", "X_CV_POM_WRITE_BYTE"),
      Decl(<<64, 230, 48>>, "name:", "X_CV_POM_WRITE_BIT"),
      Decl(<<64, 230, 48>>, "name:", "X_CV_POM_READ_BYTE"),
      Decl(<<64, 230, 49>>, "name:", "X_CV_POM_ACCESSORY_WRITE_BYTE"),
      Decl(<<64, 230, 49>>, "name:", "X_CV_POM_ ACCESSORY_WRITE_BIT"),
      Decl(<<64, 230, 49>>, "name:", "X_CV_POM_ ACCESSORY_READ_BYTE"),
      Decl(<<64, 241, 10>>, "name:", "_X_GET_FIRMWARE_VERSION"),
      Decl(<<80>>, "name:", "SET_BROADCASTFLAGS"),
      Decl(<<81>>, "name:", "GET_BROADCASTFLAGS"),
      Decl(<<96>>, "name:", "GET_LOCOMODE"),
      Decl(<<97>>, "name:", "SET_LOCOMODE"),
      Decl(<<112>>, "name:", "GET_TURNOUTMODE"),
      Decl(<<113>>, "name:", "SET_TURNOUTMODE"),
      Decl(<<129>>, "name:", "RMBUS_GETDATA"),
      Decl(<<130>>, "name:", "RMBUS_PROGRAMMODULE"),
      Decl(<<133>>, "name:", "SYSTEMSTATE_GETDATA"),
      Decl(<<137>>, "name:", "RAILCOM_GETDATA"),
      Decl(<<162>>, "name:", "LOCONET_FROM_LAN"),
      Decl(<<163>>, "name:", "LOCONET_DISPATCH_ADDR"),
      Decl(<<164>>, "name:", "LOCONET_DETECTOR"),
      Decl(<<196>>, "name:", "CAN_DETECTOR"),
      Decl(<<200>>, "name:", "CAN_DEVICE_GET_DESCRIPTION"),
      Decl(<<201>>, "name:", "CAN_DEVICE_SET_DESCRIPTION"),
      Decl(<<203>>, "name:", "CAN_BOOSTER_SET_TRACKPOWER"),
      Decl(<<204>>, "name:", "FAST_CLOCK_CONTROL"),
      Decl(<<206>>, "name:", "FAST_CLOCK_SETTINGS_GET"),
      Decl(<<207>>, "name:", "FAST_CLOCK_SETTINGS_SET"),
      Decl(<<178>>, "name:", "BOOSTER_SET_POWER"),
      Decl(<<184>>, "name:", "BOOSTER_GET_DESCRIPTION"),
      Decl(<<185>>, "name:", "BOOSTER_SET_DESCRIPTION"),
      Decl(<<187>>, "name:", "BOOSTER_SYSTEMSTATE_GETDATA"),
      Decl(<<216>>, "name:", "DECODER_GET_DESCRIPTION"),
      Decl(<<217>>, "name:", "DECODER_SET_DESCRIPTION"),
      Decl(<<219>>, "name:", "DECODER_SYSTEMSTATE_GETDATA"),
      Decl(<<232, 6>>, "name:", "ZLINK_GET_HWINFO") >>

\* The dictionary the display evaluates to: of the entries written under one
\* key of one group the last one stays, an earlier one is replaced.
TO_Z21 ==
    { TO_Z21_display[k] : k \in
        { k \in DOMAIN TO_Z21_display :
            \A j \in (k + 1)..Len(TO_Z21_display) :
                TO_Z21_display[j].path # TO_Z21_display[k].path } }

\* leaf["name"] of a leaf of TO_Z21; None stands for the KeyError of a leaf
\* that has no such key
NameOf(leaf) == IF leaf.key = "name" THEN leaf.text ELSE None

-----------------------------------------------------------------------------
(* SndMsg: the templates of the model, built from entries of TO_Z21 with   *)
(* the pack callback each is constructed with.                             *)

SndMsg(name, header, sub_header, db0, pack) ==
    [name |-> name, header |-> header, sub_header |-> sub_header,
     db0 |-> db0, pack |-> pack]

SndMsgs ==
    { SndMsg("GET_SERIAL_NUMBER", 16, PyNone, PyNone, "no_data"),
      SndMsg("X_GET_TURNOUT_INFO", 64, PyInt(67), PyNone, "uint16_be"),
      SndMsg("X_GET_STATUS", 64, PyInt(33), PyInt(36), "no_data") }

SndNames == { m.name : m \in SndMsgs }

\* the data each template's pack callback accepts
Accepts(m) == IF m.pack = "no_data" THEN {PyNone} ELSE {PyInt(5), PyInt(261)}

\* self.pack_callback(data)
pack_callback(m, payload) ==
    IF m.pack = "no_data" THEN <<>>
    ELSE <<payload.v \div 256, payload.v % 256>>

\* stream with the sub-header appended to the header instead of put in its
\* place
stream_appending_sub_header(m, payload) ==
    LET header_bytes == to_bytes_little(m.header % 65536, 2)
        byte_stream1 == IF m.sub_header.t # "None"
                        THEN header_bytes
                                \o to_bytes_little(m.sub_header.v % 65536, 2)
                        ELSE header_bytes
        byte_stream2 == IF m.db0.t # "None"
                        THEN byte_stream1 \o to_bytes_little(m.db0.v % 256, 1)
                        ELSE byte_stream1
        byte_stream == byte_stream2 \o pack_callback(m, payload)
    IN to_bytes_little(Len(byte_stream), 2) \o byte_stream

\* SndMsg.stream, lines 724-730
stream(m, payload) ==
    LET header_bytes == to_bytes_little(m.header % 65536, 2)
        byte_stream1 == IF m.sub_header.t # "None"
                        THEN to_bytes_little(m.sub_header.v % 65536, 2)
                        ELSE header_bytes
        byte_stream2 == IF m.db0.t # "None"
                        THEN byte_stream1 \o to_bytes_little(m.db0.v % 256, 1)
                        ELSE byte_stream1
        byte_stream == byte_stream2 \o pack_callback(m, payload)
    IN to_bytes_little(Len(byte_stream), 2) \o byte_stream

\* stream as the docstring of Rcv._data has it: sending a request sets the
\* requested value to None in the receive household
StreamResettingSlot(m, payload) ==
    /\ call.op = "idle"
    /\ last_data' = [last_data EXCEPT ![m.name] = payload]
    /\ data' = [i \in 1..created |->
                    SetItem(data[i],
                            IF m.name = "GET_SERIAL_NUMBER"
                            THEN "serial_number" ELSE "turnout_state",
                            PyNone)]
    /\ call' = [op |-> "stream", self |-> 0, arg |-> <<m.name, payload>>,
                out |-> Seen(Return(<<>>)) @@ [bytes |-> stream(m, payload)]]
    /\ UNCHANGED <<created, MSG_STRUC, task>>

Stream(m, payload) ==
    /\ call.op = "idle"
    /\ last_data' = [last_data EXCEPT ![m.name] = payload]
    /\ call' = [op |-> "stream", self |-> 0, arg |-> <<m.name, payload>>,
                out |-> Seen(Return(<<>>)) @@ [bytes |-> stream(m, payload)]]
    /\ UNCHANGED <<created, data, MSG_STRUC, task>>

\* The property SndMsg.all, lines 681-691: its entry "last_stream" is
\* self.stream(self._last_data).  The pack callback of a template that takes
\* a number raises on the None a template starts with.
All(m) ==
    /\ call.op = "idle"
    /\ call' = [op |-> "all", self |-> 0, arg |-> <<m.name>>,
                out |-> IF last_data[m.name] \in Accepts(m)
                        THEN Seen(Return(<<>>))
                                @@ [bytes |-> stream(m, last_data[m.name])]
                        ELSE Seen(Raise("AttributeError",
                                        "object has no attribute 'to_bytes'",
                                        <<"NoneType">>, 729, <<>>))
                                @@ [bytes |-> <<>>]]
    /\ UNCHANGED <<created, data, MSG_STRUC, last_data, task>>

-----------------------------------------------------------------------------
(* The datagrams fed to the model: up to MaxChunks of these pieces laid    *)
(* end to end.                                                             *)

DS_SERIAL == <<8, 0, 16, 0, 1, 0, 0, 0>>              \* SERIAL_NUMBER 1
DS_HWINFO == <<12, 0, 26, 0, 0, 2, 0, 0, 35, 1, 0, 0>> \* HWINFO 0x200, 1.23
DS_BCFLAGS == <<8, 0, 81, 0, 1, 0, 0, 0>>              \* BROADCASTFLAGS
DS_TURNOUT == <<9, 0, 64, 0, 67, 0, 0, 5, 1>>          \* X_TURNOUT_INFO
DS_POWEROFF == <<7, 0, 64, 0, 97, 0, 0>>               \* X_BC_TRACK_POWER_OFF
DS_UNKNOWN == <<4, 0, 255, 0>>                         \* header 0xFF
DS_BADSUB == <<6, 0, 64, 0, 153, 0>>                   \* sub-header 0x99
DS_BADDB0 == <<7, 0, 64, 0, 97, 0, 255>>               \* DB0 0xFF
DS_NODB0 == <<6, 0, 64, 0, 97, 0>>                     \* group 0x61, no DB0
DS_LEN0 == <<0, 0, 16, 0>>                             \* declares length 0
DS_LEN3 == <<3, 0, 16, 0>>                             \* declares length 3
DS_LONG == <<9, 0, 16, 0, 1, 0, 0, 0>>                 \* declares 9, has 8
TAIL2 == <<1, 2>>                                      \* two stray bytes

Chunks ==
    { DS_SERIAL, DS_HWINFO, DS_BCFLAGS, DS_TURNOUT, DS_POWEROFF, DS_UNKNOWN,
      DS_BADSUB, DS_BADDB0, DS_NODB0, DS_LEN0, DS_LEN3, DS_LONG, TAIL2 }

RECURSIVE Concats(_)
Concats(n) ==
    IF n = 0 THEN {<<>>}
    ELSE Concats(n - 1) \cup { a \o c : a \in Concats(n - 1), c \in Chunks }

DS_SERIAL2 == <<8, 0, 16, 0, 2, 0, 0, 0>>             \* SERIAL_NUMBER 2
DS_LNRX == <<5, 0, 160, 0, 129>>                       \* LOCONET_Z21_RX
DS_LNTX == <<5, 0, 161, 0, 130>>                       \* LOCONET_Z21_TX
DS_CODE0 == <<4, 0, 24, 0>>                            \* CODE, no code byte

\* datagrams of datasets that share a slot, or that follow a dataset whose
\* decoder has too few bytes
Sequels ==
    { DS_SERIAL \o DS_SERIAL2, DS_LNRX \o DS_LNTX, DS_CODE0 \o DS_SERIAL,
      DS_SERIAL \o DS_CODE0 \o DS_HWINFO }

DS_GROUP0 == <<4, 0, 64, 0>>                           \* group 0x40, no data
DS_GROUP1 == <<5, 0, 64, 0, 97>>                       \* group 0x40, one byte
DS_TURNOUT0 == <<6, 0, 64, 0, 67, 0>>                  \* X_TURNOUT_INFO, no data

\* datasets of a group header that end within or right after their tags
\* (DS_NODB0 and DS_POWEROFF of Chunks are two more)
Shorts == { DS_GROUP0, DS_GROUP1, DS_TURNOUT0 }

Datagrams == Concats(MaxChunks) \cup Sequels \cup Shorts

Feed(i, udp_data_stream) ==
    LET r == proc_rcv_stream(udp_data_stream, data) IN
    /\ call.op = "idle"
    /\ data' = r.data
    /\ call' = [op |-> "feed", self |-> i, arg |-> udp_data_stream,
                out |-> SeenOfFeed(r)]
    /\ UNCHANGED <<created, MSG_STRUC, last_data, task>>

-----------------------------------------------------------------------------
(* A decoder callback called on an object as __init__ pairs it with a      *)
(* leaf: the method, on the leaf's targetValueName.                        *)

CbPayloads == { <<1, 0, 0, 0>> }

CallCb(i, p, payload) ==
    LET r == CallBound(Bound(i, InitCallbacks[p]), Bytes(payload),
                       LeafAt(p).targetValueName, data) IN
    /\ call.op = "idle"
    /\ data' = r.data
    /\ call' = [op |-> InitCallbacks[p], self |-> i, arg |-> payload,
                out |-> Seen(r)]
    /\ UNCHANGED <<created, MSG_STRUC, last_data, task>>

-----------------------------------------------------------------------------

Idle == [op |-> "idle", self |-> 0, arg |-> <<>>, out |-> NoOutcome]

\* the caller has taken the outcome of the call it made
Discard ==
    /\ call.op # "idle"
    /\ call' = Idle
    /\ UNCHANGED <<created, data, MSG_STRUC, last_data, task>>

Init ==
    /\ created = 0
    /\ data = <<>>
    /\ MSG_STRUC = [p \in LeafPaths |-> Unbound]
    /\ last_data = [n \in SndNames |-> PyNone]
    /\ task = <<>>
    /\ call = Idle

NewRcvStep == NewRcv

ResetStep == 
    /\ call.op = "idle"
    /\ \E i \in 1..created, name \in SlotNames : reset_date(i, name)

FeedStep == 
    /\ call.op = "idle"
    /\ \E i \in 1..created, dg \in Datagrams : Feed(i, dg)

CallCbStep ==
    /\ call.op = "idle"
    /\ \E i \in 1..created, p \in DOMAIN InitCallbacks, b \in CbPayloads :
            CallCb(i, p, b)

StreamStep == 
    /\ call.op = "idle"
    /\ \E m \in SndMsgs : \E x \in Accepts(m) : Stream(m, x)

AllStep ==
    /\ call.op = "idle"
    /\ \E m \in SndMsgs : All(m)

Next ==
    \/ NewRcvStep
    \/ ResetStep
    \/ FeedStep
    \/ CallCbStep
    \/ StreamStep
    \/ AllStep
    \/ Discard

\* the whole program
Spec == Init /\ [][Next]_vars

\* the receive household alone: its construction, its callbacks, reset_date
\* and the dispatcher
NextRcv ==
    \/ NewRcvStep
    \/ ResetStep
    \/ FeedStep
    \/ CallCbStep
    \/ Discard

SpecRcv == Init /\ [][NextRcv]_vars

\* the helper bcd_decode called by itself
BcdBytes == { 0, 1, 3, 18, 35, 153, 26, 240 }
MaxBcdLen == 2
MaxDecimals == 2

RECURSIVE BcdInputs(_)
BcdInputs(n) ==
    IF n = 0 THEN {<<>>}
    ELSE BcdInputs(n - 1)
            \cup { Append(b, x) : b \in BcdInputs(n - 1), x \in BcdBytes }

BcdDecode(b, decimals) ==
    /\ call.op = "idle"
    /\ call' = [op |-> "bcd_decode", self |-> 0,
                arg |-> [data |-> b, decimals |-> decimals],
                out |-> Seen(Return(<<>>))
                            @@ [value |-> bcd_decode(b, decimals)]]
    /\ UNCHANGED <<created, data, MSG_STRUC, last_data, task>>

BcdStep ==
    /\ call.op = "idle"
    /\ \E b \in BcdInputs(MaxBcdLen), decimals \in 0..MaxDecimals :
            BcdDecode(b, decimals)

NextBcd ==
    \/ BcdStep
    \/ Discard

SpecBcd == Init /\ [][NextBcd]_vars

\* The state main() is in after z21 = Z21Client() (line 760): the one Rcv
\* object that Z21Client.__init__ constructs (line 356).
InitClient ==
    /\ created = 1
    /\ data = <<InitData>>
    /\ MSG_STRUC = BindCallbacks([p \in LeafPaths |-> Unbound], 1)
    /\ last_data = [n \in SndNames |-> PyNone]
    /\ task = <<Udp_rcv_task>>
    /\ call = Idle

NextClient ==
    \/ ResetStep
    \/ FeedStep
    \/ CallCbStep
    \/ StreamStep
    \/ AllStep
    \/ Discard

\* one client: its receive household and the message templates
SpecClient == InitClient /\ [][NextClient]_vars

-----------------------------------------------------------------------------
(* The UDP listener of an Rcv object.  _task_proc is a coroutine: it runs, *)
(* without any other code of the program in between, from where it was     *)
(* started or woken to its next await (line 543) or to its end.            *)

\* what sock.recv(10_000) does under the 1 ms timeout of line 531: it gives
\* a datagram, or raises the OSError "timed out", or another OSError
RecvOutcomes ==
    { [kind |-> "data", b |-> dg] : dg \in Chunks }
        \cup { [kind |-> k, b |-> <<>>] : k \in {"timed out", "OSError"} }

\* lines 533-545 from the test of the while loop for the outcome o of recv
task_proc_pass(t, o) ==
    IF t.shut_down_event
    THEN [t EXCEPT !.pc = "done", !.sock = "closed"]
    ELSE CASE o.kind = "data" -> [t EXCEPT !.pc = "sleeping", !.recv = Bytes(o.b)]
           [] o.kind = "timed out" -> [t EXCEPT !.pc = "sleeping"]
           [] OTHER -> [t EXCEPT !.pc = "done", !.sock = "closed"]

\* _task_proc of object i, lines 528-545, run to its next await: from the
\* start (socket, bind, which raises OSError when the port is taken and so
\* ends the task with the socket open) or from the sleep of line 543
task_proc(i) ==
    /\ task[i].pc \in {"scheduled", "sleeping"}
    /\ \E bound \in BOOLEAN, o \in RecvOutcomes :
        task' = [task EXCEPT ![i] =
                    IF @.pc = "sleeping" THEN task_proc_pass(@, o)
                    ELSE IF bound
                    THEN task_proc_pass([@ EXCEPT !.sock = "bound"], o)
                    ELSE [@ EXCEPT !.pc = "failed", !.sock = "open"]]
    /\ UNCHANGED <<created, data, MSG_STRUC, last_data, call>>

\* Rcv.shutdown, line 429: stop_task is a coroutine function and the call is
\* not awaited, so it makes a coroutine object that is dropped; the body of
\* stop_task (lines 549-550, which sets the event) does not run.
shutdown(i) ==
    /\ call.op = "idle"
    /\ call' = [op |-> "shutdown", self |-> i, arg |-> <<>>,
                out |-> NoOutcome]
    /\ UNCHANGED <<created, data, MSG_STRUC, last_data, task>>

TaskStep == \E i \in 1..created : task_proc(i)

ShutdownStep ==
    /\ call.op = "idle"
    /\ \E i \in 1..created : shutdown(i)

NextListener ==
    \/ TaskStep
    \/ ShutdownStep
    \/ StreamStep
    \/ Discard

\* The one client with its listener, as main() runs it: main sends requests
\* and awaits in between (lines 766-768), and at every await the event loop
\* runs the listener when its sleep is over.
SpecListener == InitClient /\ [][NextListener]_vars /\ WF_vars(TaskStep)

-----------------------------------------------------------------------------
(* Z21Client.set_msg_callback and Z21Client.process_rcv_msg_callback,      *)
(* called on the inbound structure.  Both start their loop with            *)
(* msg_struct.iteritems(), a method a dict does not have: the attribute    *)
(* lookup raises before the first pass of the loop.                        *)

NoIteritems(line) ==
    Raise("AttributeError", "'dict' object has no attribute 'iteritems'",
          <<"dict", "iteritems">>, line, <<>>)

\* set_msg_callback(msg_struct, name, callback_fct), lines 597-602
set_msg_callback(name, callback_fct) ==
    /\ call.op = "idle"
    /\ call' = [op |-> "set_msg_callback", self |-> 0,
                arg |-> <<name, callback_fct>>, out |-> Seen(NoIteritems(597))]
    /\ UNCHANGED <<created, data, MSG_STRUC, last_data, task>>

\* process_rcv_msg_callback(msg_struct, datagram, variables) with the
\* dictionary _data of object i as `variables`, lines 568-584: the tag is
\* read (lines 570-571), then line 576 raises
process_rcv_msg_callback(i, datagram) ==
    /\ call.op = "idle"
    /\ call' = [op |-> "process_rcv_msg_callback", self |-> i,
                arg |-> datagram, out |-> Seen(NoIteritems(576))]
    /\ UNCHANGED <<created, data, MSG_STRUC, last_data, task>>

\* the message names asked for: every name of From_Z21 and one it lacks
MsgNames == { l.name : l \in From_Z21 } \cup { "NO_SUCH_MESSAGE" }

\* datasets handed over from their header on, without the length field
FromHeader == { SliceFrom(ds, 2) : ds \in Chunks \cup Shorts }

SetMsgCallbackStep ==
    /\ call.op = "idle"
    /\ \E name \in MsgNames, i \in 1..created,
          f \in {"_cb_dummy", "_cb_uint32_le"} :
            set_msg_callback(name, Bound(i, f))

ProcessRcvMsgCallbackStep ==
    /\ call.op = "idle"
    /\ \E i \in 1..created, dg \in FromHeader :
            process_rcv_msg_callback(i, dg)

NextHelpers ==
    \/ SetMsgCallbackStep
    \/ ProcessRcvMsgCallbackStep
    \/ CallCbStep
    \/ Discard

\* the one client and the two helpers of Z21Client that walk a structure
SpecHelpers == InitClient /\ [][NextHelpers]_vars

\* The decoder callbacks of the one client called on data of any length,
\* shorter than the fields they read included.
DecoderPayloads ==
    { <<>>, <<1>>, <<1, 0>>, <<1, 0, 0>>, <<1, 0, 0, 0>>, <<0, 5, 1>>,
      <<0, 2, 0, 0, 35, 1>> }

DecodeStep ==
    /\ call.op = "idle"
    /\ \E i \in 1..created, p \in DOMAIN InitCallbacks, b \in DecoderPayloads :
            CallCb(i, p, b)

NextDecoders ==
    \/ DecodeStep
    \/ ResetStep
    \/ Discard

SpecDecoders == InitClient /\ [][NextDecoders]_vars

-----------------------------------------------------------------------------
(* Datasets as the protocol defines them, for stating the properties:      *)
(* length (2, LE, counting itself), header (2, LE), data.                  *)

LE16(b) == from_bytes_little(Slice(b, 0, 2))

\* b starts with a whole dataset: a length of at least 4 that fits
StartsWithDataset(b) == Len(b) >= 4 /\ LE16(b) >= 4 /\ LE16(b) <= Len(b)

\* the keys a dataset carries down to a leaf of From_Z21, <<>> if it
\* reaches none
TagPath(ds) ==
    LET h == from_bytes_little(Slice(ds, 2, 4))
        s == from_bytes_little(Slice(ds, 4, 6))
        z == from_bytes_little(Slice(ds, 6, 7))
    IN CASE IsLeaf(<<h>>) -> <<h>>
         [] Len(ds) >= 6 /\ IsLeaf(<<h, s>>) -> <<h, s>>
         [] Len(ds) >= 7 /\ IsLeaf(<<h, s, z>>) -> <<h, s, z>>
         [] OTHER -> <<>>

RECURSIVE Split(_)
\* the datasets of a datagram made of whole datasets only
Split(b) ==
    IF ~StartsWithDataset(b) THEN <<>>
    ELSE <<Slice(b, 0, LE16(b))>> \o Split(SliceFrom(b, LE16(b)))

RECURSIVE SumLen(_)
SumLen(q) == IF q = <<>> THEN 0 ELSE Len(Head(q)) + SumLen(Tail(q))

\* b is n >= 1 whole datasets, each reaching a leaf of From_Z21
KnownDatasets(b) ==
    /\ Split(b) # <<>>
    /\ SumLen(Split(b)) = Len(b)
    /\ \A k \in 1..Len(Split(b)) : TagPath(Split(b)[k]) # <<>>

\* the first tag level at which a one-dataset datagram leaves From_Z21:
\* 1 header, 2 sub-header, 3 DB0; 0 if it does not
UnknownLevel(b) ==
    LET h == from_bytes_little(Slice(b, 2, 4))
        s == from_bytes_little(Slice(b, 4, 6))
        z == from_bytes_little(Slice(b, 6, 7))
    IN CASE ~(StartsWithDataset(b) /\ LE16(b) = Len(b)) -> 0
         [] ~HasKey(<<>>, h) -> 1
         [] IsLeaf(<<h>>) -> 0
         [] Len(b) >= 6 /\ ~HasKey(<<h>>, s) -> 2
         [] Len(b) >= 6 /\ IsLeaf(<<h, s>>) -> 0
         [] Len(b) >= 7 /\ HasKey(<<h>>, s) /\ ~HasKey(<<h, s>>, z) -> 3
         [] OTHER -> 0

FeedDone == call.op = "feed"

Range(q) == { q[k] : k \in 1..Len(q) }

-----------------------------------------------------------------------------
\* C1 (as claimed): the length field of every dataset SndMsg.stream returns,
\* read as little-endian uint16, is the length of the whole returned byte
\* sequence, its own two bytes included.
C1_LengthFieldCountsWholeDataset ==
    call.op = "stream" => LE16(call.out.bytes) = Len(call.out.bytes)

\* C2 (as claimed): a datagram of n >= 1 whole datasets with tag paths in
\* From_Z21 returns with n decoder invocations, one per dataset in datagram
\* order, and every slot such a dataset targets then holds a value.
C2_EveryDatasetDecoded ==
    (FeedDone /\ KnownDatasets(call.arg)) =>
        LET ds == Split(call.arg) IN
        /\ call.out.status = "returned"
        /\ Len(call.out.invoked) = Len(ds)
        /\ \A k \in 1..Len(ds) :
            /\ call.out.invoked[k].path = TagPath(ds[k])
            /\ LET t == LeafAt(TagPath(ds[k])).targetValueName IN
               t \in SlotNames => data[call.self][t] # PyNone

\* C3 (as claimed): a known dataset followed by a dataset with an unknown
\* header gives the first dataset's decoder invocation and slot write,
\* and an unknown-header error that carries the offset of the second dataset.
C3_PartialSuccessWithOffset ==
    (/\ FeedDone
     /\ StartsWithDataset(call.arg)
     /\ TagPath(Slice(call.arg, 0, LE16(call.arg))) # <<>>
     /\ UnknownLevel(SliceFrom(call.arg, LE16(call.arg))) = 1) =>
        /\ call.out.status = "raised"
        /\ call.out.line = 489
        /\ LE16(call.arg) \in Range(call.out.err.args)
        /\ Len(call.out.invoked) = 1
        /\ call.out.invoked[1].path = TagPath(Slice(call.arg, 0, LE16(call.arg)))

\* C4 (as claimed): no dataset that declares a length below 4, or beyond the
\* bytes that remain, gets past the length check into the dispatch.
C4_BadLengthRejected ==
    FeedDone =>
        \A k \in 1..Len(call.out.passes) :
            /\ call.out.passes[k].length >= 4
            /\ call.out.passes[k].offset + call.out.passes[k].length
                    <= Len(call.arg)

\* C5 (as claimed): feed returns normally only when no byte remains.
C5_ReturnsOnlyWhenExhausted ==
    (FeedDone /\ call.out.status = "returned") => call.out.rest = 0

C7_UnknownTagErrorsDistinct ==
    (FeedDone /\ UnknownLevel(call.arg) # 0) =>
        /\ call.out.status = "raised"
        /\ call.out.invoked = <<>>
        /\ \A b \in Datagrams :
            UnknownLevel(b) \notin {0, UnknownLevel(call.arg)} =>
                proc_rcv_stream(b, data).err # call.out.err

\* the slot a request template asks a fresh value for
RequestSlot ==
    [n \in {"GET_SERIAL_NUMBER", "X_GET_TURNOUT_INFO"} |->
        IF n = "GET_SERIAL_NUMBER" THEN "serial_number" ELSE "turnout_state"]

\* C8 (as claimed): once the request for a value has been sent, the slot of
\* that value reads None in every object.
C8_RequestResetsSlot ==
    (call.op = "stream" /\ call.arg[1] \in DOMAIN RequestSlot) =>
        \A i \in 1..created : data[i][RequestSlot[call.arg[1]]] = PyNone

\* C9 (as claimed): the structure an object dispatches through holds that
\* object's decoders, however many objects were created after it.
C9_CallbacksBelongToInstance ==
    \A i \in 1..created : \A p \in DOMAIN InitCallbacks :
        MSG_STRUC[p].func # None /\ MSG_STRUC[p].self = i

\* C10 (as claimed): every leaf that a fed dataset of a whole-dataset
\* datagram resolves to has its callback bound.
C10_LeafCallbackBound ==
    (FeedDone /\ KnownDatasets(call.arg)) =>
        \A k \in 1..Len(Split(call.arg)) :
            MSG_STRUC[TagPath(Split(call.arg)[k])].func # None

-----------------------------------------------------------------------------
\* C11 (as claimed): in each direction no two declared message descriptors
\* have the same tuple (header, sub_header, db0) or the same name, and every
\* declared descriptor is the one its tag path resolves to.  The two displays
\* are evaluated when the module is loaded, before the first Rcv object is
\* constructed, so this is to hold however many objects there are.
C11_TagPathsAndNamesUnique ==
    created >= 0 =>
    /\ \A a, b \in From_Z21 :
        a # b => (a.path # b.path /\ a.name # b.name)
    /\ \A j, k \in DOMAIN TO_Z21_display :
        j # k => /\ TO_Z21_display[j].path # TO_Z21_display[k].path
                 /\ TO_Z21_display[j].text # TO_Z21_display[k].text
    /\ \A k \in DOMAIN TO_Z21_display : TO_Z21_display[k] \in TO_Z21

-----------------------------------------------------------------------------
\* the leaf's targetValueName of a dataset that reaches a leaf
TargetOf(ds) == LeafAt(TagPath(ds)).targetValueName

\* the bytes of a dataset after its tags: what its leaf's decoder is to get
PayloadOf(ds) ==
    SliceFrom(ds, CASE Len(TagPath(ds)) = 1 -> 4
                    [] Len(TagPath(ds)) = 2 -> 6
                    [] OTHER -> 7)

\* C12 (as claimed): two datasets of one datagram that target the same slot
\* are decoded in byte order, one after the other, and the slot ends with
\* the value decoded from the later one.
C12_LaterDatasetWins ==
    LET ds == Split(call.arg) IN
    (/\ FeedDone
     /\ KnownDatasets(call.arg)
     /\ Len(ds) = 2
     /\ TargetOf(ds[1]) = TargetOf(ds[2])
     /\ TargetOf(ds[1]) # None) =>
        /\ call.out.status = "returned"
        /\ Len(call.out.invoked) = 2
        /\ \A k \in 1..2 : call.out.invoked[k].path = TagPath(ds[k])
        /\ TargetOf(ds[2]) \in DOMAIN data[call.self]
        /\ data[call.self][TargetOf(ds[2])] # PyNone
        /\ TagPath(ds[2]) = <<16>> =>
            data[call.self]["serial_number"]
                = PyInt(from_bytes_little(PayloadOf(ds[2])))

\* a CODE dataset that lacks the code byte its decoder reads
Truncated(ds) == TagPath(ds) = <<24>> /\ PayloadOf(ds) = <<>>

\* C13 (as claimed): a dataset whose decoder finds too few bytes fails alone:
\* its slot keeps the value it had, and every other dataset of the datagram,
\* before and after it, is decoded and its slot written.
C13_DecodeFailureIsLocal ==
    [][LET ds == Split(call'.arg)
           i == call'.self
       IN
       (/\ call'.op = "feed"
        /\ KnownDatasets(call'.arg)
        /\ \E k \in 1..Len(ds) : Truncated(ds[k])) =>
            \A k \in 1..Len(ds) :
                IF Truncated(ds[k])
                THEN data'[i][TargetOf(ds[k])] = data[i][TargetOf(ds[k])]
                ELSE /\ \E j \in 1..Len(call'.out.invoked) :
                            call'.out.invoked[j].path = TagPath(ds[k])
                     /\ TargetOf(ds[k]) \in SlotNames =>
                            data'[i][TargetOf(ds[k])] # PyNone]_vars

\* datagrams of known datasets that a fresh object is to decode in full
WellFormed == { DS_SERIAL, DS_SERIAL \o DS_HWINFO }

\* C14 (as claimed): after a feed call that ended with an error, a feed call
\* with a well-formed datagram of known datasets returns, having decoded
\* every dataset and written its slot.
C14_ErrorsAreNotFatal ==
    (FeedDone /\ call.out.status = "raised") =>
        \A b \in WellFormed :
            LET r == proc_rcv_stream(b, data) IN
            /\ r.status = "returned"
            /\ Len(r.invoked) = Len(Split(b))
            /\ \A k \in 1..Len(Split(b)) :
                r.data[call.self][TargetOf(Split(b)[k])] # PyNone

-----------------------------------------------------------------------------
\* the byte sequence each message of the model encodes to, by message name
\* and payload
EncodedAs(name, payload) ==
    CASE name = "GET_SERIAL_NUMBER" -> <<2, 0, 16, 0>>
      [] name = "X_GET_STATUS" -> <<3, 0, 33, 0, 36>>
      [] name = "X_GET_TURNOUT_INFO" /\ payload = PyInt(5) ->
            <<4, 0, 67, 0, 0, 5>>
      [] name = "X_GET_TURNOUT_INFO" /\ payload = PyInt(261) ->
            <<4, 0, 67, 0, 1, 5>>

-----------------------------------------------------------------------------
\* C18: reset_date(name) returns and leaves the slot None, and on a slot
\* that is None already (a second reset right after the first) it leaves
\* the whole dictionary of every object as it was.
C18_ResetIsIdempotent ==
    [][call'.op = "reset_date" =>
        LET i == call'.self
            name == call'.arg[1]
        IN /\ call'.out.status = "returned"
           /\ name \in DOMAIN data'[i]
           /\ data'[i][name] = PyNone
           /\ (name \in DOMAIN data[i] /\ data[i][name] = PyNone) =>
                data' = data]_vars

\* C18 witness: reset_date was called on a slot while the object held
\* decoded values in other slots; the slot reads None and the others do not.
C18_Witness ==
    /\ call.op = "reset_date"
    /\ call.arg = <<"lock_code">>
    /\ data[call.self]["lock_code"] = PyNone
    /\ data[call.self]["serial_number"] # PyNone
    /\ data[call.self]["hw_type_fw_version"] # PyNone

\* what the caller gets from feeding b to objects with dictionaries d, and
\* the slots the call writes with the values it writes
FeedEffect(b, d) ==
    LET r == proc_rcv_stream(b, d) IN
    [seen |-> SeenOfFeed(r),
     written |->
        { <<x.self, LeafAt(x.path).targetValueName,
            r.data[x.self][LeafAt(x.path).targetValueName]>> :
            x \in { y \in Range(r.invoked) :
                        LeafAt(y.path).targetValueName
                            \in DOMAIN r.data[y.self] } }]

\* the datagrams fed after another one: the empty one and the single pieces
Probes == Concats(1)

-----------------------------------------------------------------------------
\* every nibble of b is a decimal digit
ValidBcd(b) == \A k \in 1..Len(b) : b[k] % 16 <= 9 /\ b[k] \div 16 <= 9

RECURSIVE Digits(_)
\* the number whose decimal digits are the nibbles of b, first byte first,
\* high nibble before low nibble
Digits(b) ==
    IF b = <<>> THEN 0
    ELSE 100 * Digits(SubSeq(b, 1, Len(b) - 1))
            + 10 * (b[Len(b)] \div 16) + (b[Len(b)] % 16)

\* C20 (as claimed): on bytes whose nibbles are all 0 to 9 bcd_decode
\* returns the number with those digits divided by 10^decimals (as a float
\* compares equal to it: the float nearest to it), and for decimals = 0 the
\* int with those digits.
C20_BcdIsDigitsOverPowerOfTen ==
    (call.op = "bcd_decode" /\ ValidBcd(call.arg.data)) =>
        LET v == call.out.value
            digits == Digits(call.arg.data)
        IN /\ (IF v.t = "int" THEN FloatOfInt(v.v) ELSE v.n)
                = FloatDiv(digits, 10 ^ call.arg.decimals)
           /\ call.arg.decimals = 0 => v = PyInt(digits)

-----------------------------------------------------------------------------
\* C21 (as claimed): bcd_decode ends with an error, and gives no number, when
\* a nibble of a byte of its input is 10 to 15; it returns a number only when
\* every nibble is 0 to 9.
C21_BadNibbleRejected ==
    call.op = "bcd_decode" =>
        (call.out.status = "returned" <=> ValidBcd(call.arg.data))

-----------------------------------------------------------------------------
\* C22 (as claimed): the decoders of a fixed-width little-endian unsigned
\* integer end with an error when they get fewer bytes than the width: the
\* SERIAL_NUMBER decoder and the HWINFO decoder (hardware field) on fewer
\* than 4 bytes write no number.
C22_ShortIntegerRejected ==
    (call.op \in {"_cb_uint32_le", "_cb_hw_sw"} /\ Len(call.arg) < 4) =>
        call.out.status = "raised"

-----------------------------------------------------------------------------
\* C23 (as claimed): once shutdown() has been called on an object, its
\* listener task eventually has left the receive loop and closed its socket
\* (after which it receives nothing, the task being over).
C23_ShutdownStopsListener ==
    \A i \in 1..MaxInst :
        (call.op = "shutdown" /\ call.self = i) ~>
            (i \in DOMAIN task /\ task[i].pc = "done" /\ task[i].sock = "closed")

-----------------------------------------------------------------------------
\* C24 (as claimed): a datagram of one dataset whose tags lead to a leaf of
\* From_Z21 at depth 1, 2 or 3 has that leaf's own callback invoked once, on
\* exactly the bytes of the dataset after the tags (from offset 4, 6 or 7),
\* and the call returns with the leaf's slot written.
C24_LeafDecoderGetsPayload ==
    (FeedDone /\ KnownDatasets(call.arg) /\ Len(Split(call.arg)) = 1) =>
        LET path == TagPath(call.arg) IN
        /\ call.out.status = "returned"
        /\ Len(call.out.invoked) = 1
        /\ call.out.invoked[1].path = path
        /\ call.out.invoked[1].func = MSG_STRUC[path].func
        /\ call.out.invoked[1].payload = Bytes(PayloadOf(call.arg))
        /\ TargetOf(call.arg) \in SlotNames =>
                data[call.self][TargetOf(call.arg)] # PyNone

-----------------------------------------------------------------------------
\* the data bytes (after length and header) of a datagram of one dataset
DataOf(b) == SliceFrom(b, 4)

\* b is one whole dataset whose header is a group of From_Z21 and whose data
\* end before the sub-header is complete, or right after the sub-header, or
\* right after the DB0 of a sub-header that is a group
EndsAtTags(b) ==
    LET h == from_bytes_little(Slice(b, 2, 4))
        s == from_bytes_little(Slice(b, 4, 6))
    IN /\ StartsWithDataset(b) /\ LE16(b) = Len(b)
       /\ HasKey(<<>>, h) /\ ~IsLeaf(<<h>>)
       /\ \/ Len(DataOf(b)) <= 2
          \/ Len(DataOf(b)) = 3 /\ HasKey(<<h>>, s) /\ ~IsLeaf(<<h, s>>)

\* C25 (as claimed): a dataset of a group header with fewer than 2 data
\* bytes, or with exactly its tag bytes, ends in the decode of a leaf or in
\* one of the unknown-tag errors, never in another failure; with fewer than
\* 2 data bytes the sub-header counts as absent, which no group has as a key.
C25_ShortTagDataHandled ==
    (FeedDone /\ EndsAtTags(call.arg)) =>
        /\ \/ call.out.status = "returned" /\ Len(call.out.invoked) = 1
           \/ call.out.status = "raised" /\ call.out.line \in {489, 499, 505}
        /\ Len(DataOf(call.arg)) < 2 =>
                (call.out.status = "raised" /\ call.out.line = 499)

-----------------------------------------------------------------------------
\* C26 (as claimed): feeding one dataset whose leaf has no targetValueName
\* leaves every slot of every object as it was, and the result of its
\* decoder is still among the results of the call; feeding one dataset whose
\* leaf has a targetValueName gives that slot of the object a value and
\* leaves every other slot as it was.
C26_OnlyTargetSlotChanges ==
    [][(/\ call'.op = "feed"
        /\ KnownDatasets(call'.arg)
        /\ Len(Split(call'.arg)) = 1) =>
        LET t == TargetOf(call'.arg)
            i == call'.self
        IN /\ Len(call'.out.invoked) = 1
           /\ call'.out.invoked[1].path = TagPath(call'.arg)
           /\ t = None => data' = data
           /\ t # None =>
                /\ t \in DOMAIN data'[i]
                /\ data'[i][t] # PyNone
                /\ \A j \in 1..created : \A k \in DOMAIN data[j] :
                    (j # i \/ k # t) =>
                        (k \in DOMAIN data'[j] /\ data'[j][k] = data[j][k])]_vars

-----------------------------------------------------------------------------
\* the payload an X_TURNOUT_INFO decoder was called for: handed to the
\* callback itself, or carried by the one dataset of a fed datagram
TurnoutPayload(c) ==
    IF c.op = "_cb_actualize_turnout_state" THEN c.arg
    ELSE IF /\ c.op = "feed" /\ KnownDatasets(c.arg) /\ Len(Split(c.arg)) = 1
            /\ TagPath(c.arg) = <<64, 67>>
    THEN PayloadOf(c.arg)
    ELSE <<>>

\* C27 (as claimed): after an X_TURNOUT_INFO with the turnout address a (two
\* bytes, high byte first) and the state byte s has been decoded, the slot
\* turnout_state of the object is a mapping that has s at a and, at every
\* other address, what it had before.
C27_TurnoutStateUpdated ==
    [][Len(TurnoutPayload(call')) >= 3 =>
        LET p == TurnoutPayload(call')
            a == p[1] * 256 + p[2]
            s == p[3]
            old == data[call'.self]["turnout_state"]
            new == data'[call'.self]["turnout_state"]
        IN /\ call'.out.status = "returned"
           /\ new.t = "dict"
           /\ a \in DOMAIN new.m
           /\ new.m[a] = s
           /\ \A x \in DOMAIN new.m \ {a} :
                old.t = "dict" /\ x \in DOMAIN old.m /\ old.m[x] = new.m[x]
           /\ old.t = "dict" => DOMAIN old.m \subseteq DOMAIN new.m]_vars

-----------------------------------------------------------------------------
\* C28 (as claimed): after set_msg_callback(msg_struct, name, f) the leaf
\* named `name`, at whatever depth, has the callback f and every other leaf
\* has the callback it had; with no leaf of that name nothing has changed.
C28_SetMsgCallbackSetsNamedLeaf ==
    [][call'.op = "set_msg_callback" =>
        \A p \in LeafPaths :
            MSG_STRUC'[p] = IF LeafAt(p).name = call'.arg[1]
                            THEN call'.arg[2] ELSE MSG_STRUC[p]]_vars

-----------------------------------------------------------------------------
\* a dataset given from its header on, with its length field put in front
WithLength(b) == to_bytes_little(Len(b) + 2, 2) \o b

\* C29 (as claimed): process_rcv_msg_callback on the bytes of one dataset
\* from its header on, whose tags (2 bytes, 2 bytes, 1 byte) lead to a leaf,
\* runs that leaf's callback on the bytes after the tags and stores the
\* result in `variables` under the leaf's targetValueName.
C29_ProcessRunsLeafCallback ==
    (/\ call.op = "process_rcv_msg_callback"
     /\ TagPath(WithLength(call.arg)) # <<>>) =>
        LET ds == WithLength(call.arg) IN
        /\ call.out.status = "returned"
        /\ Len(call.out.invoked) = 1
        /\ call.out.invoked[1].path = TagPath(ds)
        /\ call.out.invoked[1].payload = Bytes(PayloadOf(ds))
        /\ TargetOf(ds) \in SlotNames => data[call.self][TargetOf(ds)] # PyNone

-----------------------------------------------------------------------------
\* C30 (as claimed): the dataset SndMsg.stream returns for a message with
\* the tags (header, sub-header, DB0), read as _proc_rcv_stream reads a
\* dataset (header: 2 bytes little-endian at offset 2; sub-header: the first
\* 2 data bytes; DB0: the next byte), gives the same tags back.
C30_EncoderAndDispatcherAgree ==
    call.op = "stream" =>
        LET m == CHOOSE t \in SndMsgs : t.name = call.arg[1]
            b == call.out.bytes
        IN /\ Len(b) >= 4
           /\ from_bytes_little(Slice(b, 2, 4)) = m.header
           /\ m.sub_header # PyNone =>
                /\ Len(b) >= 6
                /\ from_bytes_little(Slice(b, 4, 6)) = m.sub_header.v
           /\ m.db0 # PyNone =>
                /\ Len(b) >= 7
                /\ from_bytes_little(Slice(b, 6, 7)) = m.db0.v

-----------------------------------------------------------------------------
\* the names the leaves of From_Z21 declare as targetValueName
TargetNames == { l.targetValueName : l \in From_Z21 } \ { None }

\* C31 (as claimed): every object has, after any feed and reset_date calls,
\* exactly the slots it was constructed with, and every targetValueName a
\* leaf of From_Z21 declares is one of them.
C31_SlotNamesFixedAndCoverTargets ==
    \A i \in 1..created :
        /\ DOMAIN data[i] = SlotNames
        /\ TargetNames \subseteq DOMAIN data[i]

-----------------------------------------------------------------------------
RECURSIVE Contiguous(_, _)
\* the passes q of a call start at `offset` and each starts where the one
\* before it ended
Contiguous(q, offset) ==
    \/ q = <<>>
    \/ /\ Head(q).offset = offset
       /\ Contiguous(Tail(q), offset + Head(q).length)

RECURSIVE SumOfLengths(_)
SumOfLengths(q) ==
    IF q = <<>> THEN 0 ELSE Head(q).length + SumOfLengths(Tail(q))

\* C32 (as claimed): when a feed returns without error the datasets it
\* dispatched lie end to end from offset 0 and their declared lengths sum to
\* the length of the datagram: every byte belongs to exactly one dataset.
C32_DatasetsPartitionDatagram ==
    (FeedDone /\ call.out.status = "returned") =>
        /\ Contiguous(call.out.passes, 0)
        /\ SumOfLengths(call.out.passes) = Len(call.arg)
====
